---- MODULE Spec2Model ----
(***************************************************************************)
(* EuroDreams.py: the double-pendulum "chaotic seed", the seed combiner,   *)
(* the number sampler over the module-level generator of `random`, the     *)
(* next-draw date and the 47 + 1 draws of the main program.                *)
(*                                                                         *)
(* Numbers.  Python integers are unbounded, so sums are plain integers.    *)
(* The duration and the step of a simulation are given in hundredths of a  *)
(* second (the default dt); the time grid np.arange builds from them is    *)
(* computed in double precision, as numpy does.  Angles are in units of    *)
(* 1e-7 rad and angular velocities in units of 1e-3 rad/s: there fixed     *)
(* point stands in for the doubles.                                        *)
(***************************************************************************)
EXTENDS Integers, Sequences, FiniteSets

VARIABLES
    rng,        \* state of the shared generator behind random.seed/sample/randint
    call,       \* per thread: the call of generate_eurodreams_numbers in progress
    drawLog,    \* completed sampler calls, in order of return
    hashSalt,   \* the per-process salt of hash()
    seedLog,    \* completed create_combined_seed calls
    simOut,     \* the last simulate_double_pendulum call and its outcome
    nwOut,      \* the last next_weekday call: the clock it read and what it returned
    mainPc,     \* position of the main program
    base,       \* int(current_datetime.strftime("%d%H%M%S%f")), captured once
    token,      \* weather_seed of the run
    iter        \* loop index i of the trial loop

vars == <<rng, call, drawLog, hashSalt, seedLog, simOut, nwOut,
          mainPc, base, token, iter>>

(***************************************************************************)
(* Bounds of the model                                                     *)
(***************************************************************************)
MaxSeed == 3        \* sampler seeds are drawn from -MaxSeed..MaxSeed
MaxCalls == 3       \* sampler calls per behaviour
MaxConcCalls == 2   \* sampler calls per behaviour of the concurrent callers
MaxDraws == 1       \* sampler calls per behaviour between seed combiner calls
NumThreads == 2     \* concurrent callers of the sampler
MaxSalt == 1        \* hash salts 0..MaxSalt
MaxTime == 2        \* time integers 0..MaxTime handed to the seed combiner
MaxTmax == 7        \* simulated durations -1..MaxTmax, in hundredths of a second
MaxDt == 3          \* time steps -1..MaxDt, in hundredths of a second
MaxParam == 2       \* lengths and masses 0..MaxParam
NumTokens == 2      \* external tokens 1..NumTokens
MaxSeedCalls == 2   \* seed combiner calls per behaviour
MaxBase == 2        \* captured timestamps 0..MaxBase of the main program

Abs(x) == IF x < 0 THEN -x ELSE x

Threads == 1..NumThreads
Seeds == (-MaxSeed)..MaxSeed
Tokens == 1..NumTokens

(***************************************************************************)
(* Double-precision arithmetic, as far as np.arange needs it.  A natural   *)
(* number is a sequence of limbs in base 2^15, least significant first and *)
(* without leading zero limbs; a positive double is [m, e], the value      *)
(* m * 2^e with 2^52 <= m < 2^53; every operation rounds to nearest, ties  *)
(* to even.  Intermediate results are handed on as operator arguments, so  *)
(* that each is computed once.                                             *)
(***************************************************************************)
Base == 2^15
Precision == 53

Min(a, b) == IF a < b THEN a ELSE b
Max(a, b) == IF a > b THEN a ELSE b

RECURSIVE Trim(_)
Trim(x) ==
    IF x # <<>> /\ x[Len(x)] = 0 THEN Trim(SubSeq(x, 1, Len(x) - 1)) ELSE x

RECURSIVE NatOfInt(_)
NatOfInt(k) == IF k = 0 THEN <<>> ELSE <<k % Base>> \o NatOfInt(k \div Base)

RECURSIVE IntOfNat(_)
IntOfNat(x) == IF x = <<>> THEN 0 ELSE Head(x) + Base * IntOfNat(Tail(x))

RECURSIVE BitsOfInt(_)
BitsOfInt(k) == IF k = 0 THEN 0 ELSE 1 + BitsOfInt(k \div 2)

BitLen(x) == IF x = <<>> THEN 0 ELSE (Len(x) - 1) * 15 + BitsOfInt(x[Len(x)])

IsOdd(x) == x # <<>> /\ x[1] % 2 = 1

\* x * k + c for 0 <= k, c < Base
RECURSIVE MulAdd(_, _, _)
MulAdd(x, k, c) ==
    IF x = <<>> THEN NatOfInt(c)
    ELSE <<(Head(x) * k + c) % Base>> \o MulAdd(Tail(x), k, (Head(x) * k + c) \div Base)

MulSmall(x, k) == Trim(MulAdd(x, k, 0))

\* x mod k and floor(x / k) for 0 < k <= Base
RECURSIVE Rem(_, _)
Rem(x, k) == IF x = <<>> THEN 0 ELSE (Rem(Tail(x), k) * Base + Head(x)) % k

RECURSIVE QuotLimbs(_, _)
QuotLimbs(x, k) ==
    IF x = <<>> THEN <<>>
    ELSE <<(Rem(Tail(x), k) * Base + Head(x)) \div k>> \o QuotLimbs(Tail(x), k)

DivSmall(x, k) == Trim(QuotLimbs(x, k))

\* -1, 0, 1 as x <, =, > y
RECURSIVE Compare(_, _)
Compare(x, y) ==
    IF Len(x) # Len(y) THEN (IF Len(x) < Len(y) THEN -1 ELSE 1)
    ELSE IF x = <<>> THEN 0
    ELSE IF x[Len(x)] # y[Len(x)] THEN (IF x[Len(x)] < y[Len(x)] THEN -1 ELSE 1)
    ELSE Compare(SubSeq(x, 1, Len(x) - 1), SubSeq(y, 1, Len(x) - 1))

\* x - y - b for x >= y + b
RECURSIVE SubFrom(_, _, _)
SubFrom(x, y, b) ==
    IF x = <<>> THEN <<>>
    ELSE LET d == Head(x) - (IF y = <<>> THEN 0 ELSE Head(y)) - b
         IN  <<IF d < 0 THEN d + Base ELSE d>>
             \o SubFrom(Tail(x), IF y = <<>> THEN <<>> ELSE Tail(y),
                        IF d < 0 THEN 1 ELSE 0)

Sub(x, y) == Trim(SubFrom(x, y, 0))

\* x * 2^s
RECURSIVE ShiftLeft(_, _)
ShiftLeft(x, s) ==
    IF x = <<>> \/ s = 0 THEN x
    ELSE IF s >= 15 THEN ShiftLeft(<<0>> \o x, s - 15)
    ELSE MulSmall(x, 2^s)

\* floor(x / 2^s), and x mod 2^s
ShiftRight(x, s) == DivSmall(SubSeq(x, Min(s \div 15, Len(x)) + 1, Len(x)), 2^(s % 15))

LowBits(x, s) ==
    Trim(SubSeq(x, 1, Min(s \div 15, Len(x)))
         \o <<Rem(SubSeq(x, Min(s \div 15, Len(x)) + 1, Len(x)), 2^(s % 15))>>)

\* The largest digit c < Base with c * y <= r, found bit by bit from bit b down
RECURSIVE DigitFrom(_, _, _, _)
DigitFrom(r, y, b, c) ==
    IF b < 0 THEN c
    ELSE IF Compare(MulSmall(y, c + 2^b), r) <= 0
         THEN DigitFrom(r, y, b - 1, c + 2^b)
         ELSE DigitFrom(r, y, b - 1, c)

\* x divided by y > 0, by long division from limb n of x down: r is the
\* remainder so far, cur the remainder with limb n brought down, c the
\* quotient's digit there, q the quotient's lower limbs.
RECURSIVE DivFrom(_, _, _, _, _)
RECURSIVE DivDigit(_, _, _, _, _)
RECURSIVE DivPut(_, _, _, _, _, _)
DivFrom(x, y, n, r, q) ==
    IF n = 0 THEN [q |-> Trim(q), r |-> r]
    ELSE DivDigit(x, y, n, Trim(<<x[n]>> \o r), q)

DivDigit(x, y, n, cur, q) ==
    DivPut(x, y, n, cur, IF Compare(cur, y) < 0 THEN 0 ELSE DigitFrom(cur, y, 14, 0), q)

DivPut(x, y, n, cur, c, q) ==
    DivFrom(x, y, n - 1, Sub(cur, MulSmall(y, c)), <<c>> \o q)

DivMod(x, y) ==
    IF Len(y) = 1 THEN [q |-> DivSmall(x, y[1]), r |-> NatOfInt(Rem(x, y[1]))]
    ELSE DivFrom(x, y, Len(x), <<>>, <<>>)

\* The double nearest to (q + f) * 2^e for a natural q of 53 bits and a
\* fraction f below 1/2 (up = -1), exactly 1/2 (up = 0) or above (up = 1).
RoundUp(q, up) == up > 0 \/ (up = 0 /\ IsOdd(q))

Normalize(m, e) ==
    IF BitLen(m) > Precision THEN [m |-> DivSmall(m, 2), e |-> e + 1]
    ELSE [m |-> ShiftLeft(m, Precision - BitLen(m)), e |-> e - (Precision - BitLen(m))]

RoundTo(q, up, e) == Normalize(IF RoundUp(q, up) THEN MulAdd(q, 1, 1) ELSE q, e)

\* The double nearest to n / d, for naturals n, d > 0: the quotient of n * 2^s
\* by d, for the s that gives it 53 bits, rounded by its remainder.
RatioShift(n, d) ==
    LET k == BitLen(n) - BitLen(d)
    IN  IF Compare(ShiftLeft(n, Max(-k, 0)), ShiftLeft(d, Max(k, 0))) >= 0
        THEN Precision - 1 - k ELSE Precision - k

RatioRound(qr, d, s) == RoundTo(qr.q, Compare(MulSmall(qr.r, 2), d), -s)

RatioDivide(n, d, s) == RatioRound(DivMod(n, d), d, s)

RatioAt(n, d, s) ==
    RatioDivide(IF s > 0 THEN ShiftLeft(n, s) ELSE n,
                IF s < 0 THEN ShiftLeft(d, -s) ELSE d, s)

DoubleOfRatio(n, d) == RatioAt(n, d, RatioShift(n, d))

\* The double nearest to the natural n.
DoubleOfNat(n) ==
    IF BitLen(n) <= Precision THEN Normalize(n, 0)
    ELSE RoundTo(ShiftRight(n, BitLen(n) - Precision),
                 Compare(ShiftLeft(LowBits(n, BitLen(n) - Precision), 1),
                         ShiftLeft(<<1>>, BitLen(n) - Precision)),
                 BitLen(n) - Precision)

\* x * 2^e
Scale(x, e) == [m |-> x.m, e |-> x.e + e]

\* x / y
DoubleDiv(x, y) == Scale(DoubleOfRatio(x.m, y.m), x.e - y.e)

\* k * x for an integer 0 < k < 2^15
DoubleTimes(k, x) == Scale(DoubleOfNat(MulSmall(x.m, k)), x.e)

\* x < y
DoubleLess(x, y) == x.e < y.e \/ (x.e = y.e /\ Compare(x.m, y.m) < 0)

\* ceil(x) for 0 < x < 2^31
DoubleCeil(x) ==
    IntOfNat(ShiftRight(x.m, -x.e)) + (IF LowBits(x.m, -x.e) # <<>> THEN 1 ELSE 0)

\* The double a Python literal of c hundredths denotes (0.07 is c = 7), c > 0.
DoubleOfCenti(c) == DoubleOfRatio(NatOfInt(c), NatOfInt(100))

(***************************************************************************)
(* The double pendulum.  Angles are integers in units of 1e-7 rad, angular *)
(* velocities in 1e-3 rad/s, sines and cosines in thousandths, times in    *)
(* hundredths of a second.  sin is Bhaskara's rational approximation, and  *)
(* odeint (LSODA) is stood in for by one explicit step per output time:    *)
(* what the program relies on is that the solver is a fixed function of    *)
(* deriv, y0, t and the parameters, and that its first row is y0.          *)
(***************************************************************************)
Gravity == 981              \* g = 9.81, in hundredths
AnglePi == 31415927         \* np.pi
AngleTenth == 1000000       \* 0.1 rad
UnitsPerMicro == 10         \* angle units in 1e-6 rad: abs(x) * 1e6 is |x| / 10
DefaultTmax == 1000         \* tmax=10
DefaultDt == 1              \* dt=0.01
DefaultLength == 1          \* L1=1.0, L2=1.0
DefaultMass == 1            \* m1=1.0, m2=1.0

\* y0=[np.pi - 0.1, 0.0, np.pi - 0.2, 0.0]
DefaultY0 == <<AnglePi - AngleTenth, 0, AnglePi - 2 * AngleTenth, 0>>

\* 1000 * sin(u / 1000) for u in 0..3142 (thousandths of a radian).
SinHalfTurn(u) ==
    LET p == u * (3142 - u)
    IN  (16000 * (p \div 100)) \div ((49348022 - 4 * p) \div 100)

\* np.sin(x), np.cos(x) in thousandths, x in angle units.
Sin(x) ==
    LET u == (x % (2 * AnglePi)) \div 10000
    IN  IF u <= 3141 THEN SinHalfTurn(u)
        ELSE -SinHalfTurn(u - 3142)

Cos(x) == Sin(x + (AnglePi \div 2))

\* m1 + m2 * s**2, in thousandths.
Denominator(y, m1, m2) ==
    LET s == Sin(y[1] - y[3]) IN m1 * 1000 + m2 * ((s * s) \div 1000)

\* Whether deriv divides by nonzero numbers only; a division of a numpy float
\* by zero yields inf or nan (and a warning), never an exception.
Finite(y, L1, L2, m1, m2) == L1 # 0 /\ L2 # 0 /\ Denominator(y, m1, m2) # 0

\* deriv(y, t, L1, L2, m1, m2), where Finite: (theta1', z1', theta2', z2').
deriv(y, L1, L2, m1, m2) ==
    LET theta1 == y[1]
        z1 == y[2]
        theta2 == y[3]
        z2 == y[4]
        c == Cos(theta1 - theta2)
        s == Sin(theta1 - theta2)
        z1sq == (z1 * z1) \div 1000
        z2sq == (z2 * z2) \div 1000
        gs1 == (Gravity * Sin(theta1)) \div 100
        gs2 == (Gravity * Sin(theta2)) \div 100
        den == Denominator(y, m1, m2)
        num1 == (m2 * gs2 * c) \div 1000
                - (m2 * s * ((L1 * z1sq * c) \div 1000 + L2 * z2sq)) \div 1000
                - (m1 + m2) * gs1
        num2 == (m1 + m2) * ((L1 * z1sq * s) \div 1000 - gs2 + (gs1 * c) \div 1000)
                + (((m2 * L2 * z2sq * s) \div 1000) * c) \div 1000
        Quot(a, b) == IF b > 0 THEN a \div b ELSE (-a) \div (-b)
    IN  <<z1, (Quot(num1, L1) * 1000) \div den, z2, (Quot(num2, L2) * 1000) \div den>>

\* The solver's row at the next output time, dt later, for the derivative d.
Advance(y, d, dt) ==
    <<y[1] + d[1] * dt * 100, y[2] + (d[2] * dt) \div 100,
      y[3] + d[3] * dt * 100, y[4] + (d[4] * dt) \div 100>>

OdeStep(y, L1, L2, m1, m2, dt) == Advance(y, deriv(y, L1, L2, m1, m2), dt)

\* The rows of odeint for n >= 1 output times starting from y, up to the first
\* row whose step is not finite; built by halves (the rows a of the first half,
\* then those of the second) so that the evaluation stays shallow.
RECURSIVE OdeRows(_, _, _, _, _, _, _)
RECURSIVE OdeSecondHalf(_, _, _, _, _, _, _)
OdeRows(y, n, L1, L2, m1, m2, dt) ==
    IF n = 1 THEN <<y>>
    ELSE OdeSecondHalf(OdeRows(y, n \div 2, L1, L2, m1, m2, dt), n, L1, L2, m1, m2, dt)

OdeSecondHalf(a, n, L1, L2, m1, m2, dt) ==
    IF Len(a) < n \div 2 \/ ~Finite(a[Len(a)], L1, L2, m1, m2) THEN a
    ELSE a \o OdeRows(OdeStep(a[Len(a)], L1, L2, m1, m2, dt), n - n \div 2,
                      L1, L2, m1, m2, dt)

\* len(np.arange(0, stop, step)) for step # 0, stop and step in hundredths:
\* the ceiling of the double quotient stop / step, at least 0.
ArangeLen(stop, step) ==
    IF stop = 0 \/ (stop > 0) # (step > 0) THEN 0
    ELSE DoubleCeil(DoubleDiv(DoubleOfCenti(Abs(stop)), DoubleOfCenti(Abs(step))))

\* Element k (from 0) of np.arange(0, stop, step): the double k * step, as a
\* sign and a magnitude, for the step of that sign and magnitude.
Signed(sign, x) == [sign |-> sign, m |-> x.m, e |-> x.e]

ArangeAt(k, sign, step) ==
    IF k = 0 THEN [sign |-> 0, m |-> <<>>, e |-> 0]
    ELSE Signed(sign, DoubleTimes(k, step))

\* Whether the time x of np.arange is below the positive double y.
TimeLess(x, y) == x.sign <= 0 \/ DoubleLess(x, y)

\* What the function returns for the output times t and the solver's rows sol.
Solution(t, sol) ==
    [status |-> "ok", t |-> t,
     theta1 |-> [k \in 1..Len(t) |-> IF k <= Len(sol) THEN sol[k][1] ELSE 0],
     theta2 |-> [k \in 1..Len(t) |-> IF k <= Len(sol) THEN sol[k][3] ELSE 0],
     nanFrom |-> Len(sol) + 1]

\* odeint over the n output times of step `step`, and the columns returned.
Integrate(L1, L2, m1, m2, dt, y0, n, step) ==
    IF n = 0
    THEN {[status |-> "LibraryError"], Solution(<<>>, <<>>)}
    ELSE {Solution([k \in 1..n |-> ArangeAt(k - 1, IF dt > 0 THEN 1 ELSE -1, step)],
                   OdeRows(y0, n, L1, L2, m1, m2, dt))}

\* The outcomes of simulate_double_pendulum(L1, L2, m1, m2, tmax, dt, y0).
\*   dt = 0: np.arange raises.
\*   no output time: what odeint does with an empty t is the library's affair,
\*     an error of its own or an empty solution.
\*   otherwise (theta1, theta2) = the columns 0 and 2 of the solution, one row
\*     per time of t; the rows from index nanFrom on hold inf or nan (written 0
\*     here), and nanFrom = n + 1 when every row is finite.
simulate_double_pendulum(L1, L2, m1, m2, tmax, dt, y0) ==
    IF dt = 0 THEN {[status |-> "ZeroDivisionError"]}
    ELSE Integrate(L1, L2, m1, m2, dt, y0, ArangeLen(tmax, dt),
                   DoubleOfCenti(Abs(dt)))

\* get_chaotic_value_from_pendulum(L1, L2, m1, m2, tmax, dt, y0): theta2[-1] of
\* each outcome of the simulation.
ChaoticOutcome(r) ==
    IF r.status # "ok" THEN r
    ELSE IF Len(r.theta2) = 0 THEN [status |-> "IndexError"]
    ELSE [status |-> "ok", finite |-> r.nanFrom > Len(r.theta2),
          value |-> r.theta2[Len(r.theta2)]]

get_chaotic_value_from_pendulum(L1, L2, m1, m2, tmax, dt, y0) ==
    {ChaoticOutcome(r) : r \in simulate_double_pendulum(L1, L2, m1, m2, tmax, dt, y0)}

\* get_chaotic_value_from_pendulum(): the call with every default.
DefaultChaoticValue ==
    (CHOOSE x \in get_chaotic_value_from_pendulum(
                     DefaultLength, DefaultLength, DefaultMass, DefaultMass,
                     DefaultTmax, DefaultDt, DefaultY0) : TRUE).value

(***************************************************************************)
(* The generator.  `random` is the standard library's Mersenne Twister;    *)
(* what the program relies on is that seed(a) sets the whole state from    *)
(* abs(a), and that every draw reads the state and advances it.  A linear  *)
(* congruential generator over RngModulus states stands in for it.         *)
(***************************************************************************)
RngModulus == 65537

RngNext(st) == (75 * st + 74) % RngModulus

\* A generator: its state, and the number of draws made since it was seeded.
\* random.seed(a) for an integer a: the state is a function of abs(a).
SeedState(a) == [st |-> RngNext(Abs(a) % RngModulus), consumed |-> 0]

\* The bits a draw reads: getrandbits takes the high-order bits of the word.
RngBits(st) == st \div 256

\* random._randbelow(n): a value in 0..n-1 and the advanced generator.
randbelow(n, g) ==
    [val |-> RngBits(RngNext(g.st)) % n,
     g |-> [st |-> RngNext(g.st), consumed |-> g.consumed + 1]]

MainMax == 40       \* range(1, 41)
MainCount == 6
BonusMax == 5       \* randint(1, 5)

\* list(range(1, 41))
Population == [k \in 1..MainMax |-> k]

\* One pass of random.sample's selection loop over the pool (n <= setsize):
\*   j = randbelow(n - i); result[i] = pool[j]; pool[j] = pool[n - i - 1]
SampleWithReplacement(pool, i, g) ==
    LET r == randbelow(Len(pool), g)
    IN  [pick |-> pool[r.val + 1], pool |-> pool, g |-> r.g]

SampleStepOnce(pool, i, g) ==
    LET n == Len(pool)
        r == randbelow(n - i, g)
        j == r.val + 1
    IN  [pick |-> pool[j], pool |-> [pool EXCEPT ![j] = pool[n - i]], g |-> r.g]

RECURSIVE SampleLoop(_, _, _, _, _)
SampleLoop(pool, i, k, g, result) ==
    IF i = k THEN [val |-> result, g |-> g]
    ELSE LET s == SampleStepOnce(pool, i, g)
         IN  SampleLoop(s.pool, i + 1, k, s.g, Append(result, s.pick))

\* random.sample(range(1, 41), 6)
sample(k, g) == SampleLoop(Population, 0, k, g, <<>>)

\* sorted(xs): insertion into an ascending list, one element at a time.
RECURSIVE Insert(_, _)
Insert(x, s) ==
    IF s = <<>> THEN <<x>>
    ELSE IF x <= Head(s) THEN <<x>> \o s
    ELSE <<Head(s)>> \o Insert(x, Tail(s))

RECURSIVE sorted(_)
sorted(s) == IF s = <<>> THEN <<>> ELSE Insert(Head(s), sorted(Tail(s)))

\* random.randint(a, b) == a + randbelow(b - a + 1)
randint(a, b, g) ==
    LET r == randbelow(b - a + 1, g) IN [val |-> a + r.val, g |-> r.g]

\* generate_eurodreams_numbers(seed) run from entry to return with no other
\* user of the generator in between: the result and the state it leaves.
generate_eurodreams_numbers(seed) ==
    LET s0 == SeedState(seed)
        m == sample(MainCount, s0)
        b == randint(1, BonusMax, m.g)
    IN  [main |-> sorted(m.val), bonus |-> <<b.val>>, g |-> b.g]

(***************************************************************************)
(* The seed combiner                                                       *)
(***************************************************************************)
\* hash(weather_seed): fixed for the life of the process, salted per process;
\* negative and positive values both occur.
Hash(w) == (((w + 1) * (hashSalt + 3) * 7919) % 2003) - 1001

\* int(x) for x = num / den with den > 0: truncation toward zero.
PyInt(num, den) == IF num >= 0 THEN num \div den ELSE -((-num) \div den)

\* create_combined_seed(current_time_seed, weather_seed), given the chaotic
\* value v that line 75 obtained.
CombineByProduct(t, w, v) == Hash(w) * (t + 1) + PyInt(Abs(v), UnitsPerMicro)

Combine(t, w, v) == Hash(w) + t + PyInt(Abs(v), UnitsPerMicro)

\* The chaotic value a call of create_combined_seed obtains (line 75).
ChaosOfGenerator == DefaultChaoticValue + rng.st

ChaosOfCall == DefaultChaoticValue

create_combined_seed(t, w) == Combine(t, w, ChaosOfCall)

\* What a call create_combined_seed(t, w) made now is logged as.
SeedEntry(t, w) ==
    [t |-> t, w |-> w, seed |-> create_combined_seed(t, w), rngAt |-> rng.st]

\* What a call generate_eurodreams_numbers(s) made now, and run from entry to
\* return, is logged as.
DrawEntry(s) ==
    LET r == generate_eurodreams_numbers(s)
    IN  [seed |-> s, before |-> rng.st, main |-> r.main, bonus |-> r.bonus]

(***************************************************************************)
(* The next draw date.  A moment is a number of minutes counted from       *)
(* Monday 00:00 of the current week; weekday 0 is Monday.                  *)
(***************************************************************************)
MinutesPerDay == 1440
DrawMinute == 1230          \* hour=20, minute=30

\* days_ahead: target_weekday - current_weekday, a week later when <= 0.
DaysAhead(target, wd) ==
    IF target - wd <= 0 THEN target - wd + 7 ELSE target - wd

\* next_weekday(target_weekday) when datetime.now() is weekday wd, minute m of
\* the day: the days added and the moment returned.
next_weekday(target, wd, m) ==
    LET days_ahead == DaysAhead(target, wd)
    IN  [days |-> days_ahead,
         weekday |-> (wd + days_ahead) % 7,
         moment |-> (wd + days_ahead) * MinutesPerDay + DrawMinute]

(***************************************************************************)
(* The sampler, statement by statement.  call[th].pc names the statement   *)
(* thread th executes next; consumed counts the draws made from the        *)
(* generator since it was last seeded.                                     *)
(***************************************************************************)
IdleCall == [pc |-> "idle", seed |-> 0, before |-> 0, main |-> <<>>, bonus |-> <<>>]

Idle(th) == call[th].pc = "idle"
AllIdle == \A th \in Threads : Idle(th)
Active == Cardinality({th \in Threads : ~Idle(th)})

\* The order of the statements of generate_eurodreams_numbers (lines 62-65).
NextPcBonusFirst(p) ==
    CASE p = "seed" -> "bonus"
      [] p = "bonus" -> "sample"
      [] p = "sample" -> "return"
      [] OTHER -> "idle"

NextPc(p) ==
    CASE p = "seed" -> "sample"
      [] p = "sample" -> "bonus"
      [] p = "bonus" -> "return"
      [] OTHER -> "idle"

Others == <<hashSalt, seedLog, simOut, nwOut, mainPc, base, token, iter>>

\* A caller enters generate_eurodreams_numbers(s).
Enter(th, s, limit) ==
    /\ Idle(th)
    /\ Len(drawLog) + Active < limit
    /\ call' = [call EXCEPT ![th] = [IdleCall EXCEPT !.pc = "seed", !.seed = s,
                                                     !.before = rng.st]]
    /\ UNCHANGED <<rng, drawLog, Others>>

\* A sequential caller (the main thread): one call at a time.
StartCall(s) == AllIdle /\ Enter(1, s, MaxCalls)

\* Concurrent callers: a thread may enter while others are inside.
StartCallConc(th, s) == Enter(th, s, MaxConcCalls)

\* line 62: random.seed(seed)
SeedStepNoReseed(th) ==
    /\ call[th].pc = "seed"
    /\ rng' = [rng EXCEPT !.consumed = 0]
    /\ call' = [call EXCEPT ![th].pc = NextPc("seed")]
    /\ UNCHANGED <<drawLog, Others>>

SeedStep(th) ==
    /\ call[th].pc = "seed"
    /\ rng' = SeedState(call[th].seed)
    /\ call' = [call EXCEPT ![th].pc = NextPc("seed")]
    /\ UNCHANGED <<drawLog, Others>>

\* line 63: main_numbers = sorted(random.sample(range(1, 41), 6))
SampleStep(th) ==
    /\ call[th].pc = "sample"
    /\ LET m == sample(MainCount, rng)
       IN  /\ rng' = m.g
           /\ call' = [call EXCEPT ![th].pc = NextPc("sample"),
                                   ![th].main = sorted(m.val)]
    /\ UNCHANGED <<drawLog, Others>>

\* line 64: bonus_number = random.randint(1, 5)
BonusStep(th) ==
    /\ call[th].pc = "bonus"
    /\ LET b == randint(1, BonusMax, rng)
       IN  /\ rng' = b.g
           /\ call' = [call EXCEPT ![th].pc = NextPc("bonus"),
                                   ![th].bonus = <<b.val>>]
    /\ UNCHANGED <<drawLog, Others>>

\* line 65: return main_numbers, [bonus_number]
Return(th) ==
    /\ call[th].pc = "return"
    /\ drawLog' = Append(drawLog, [seed |-> call[th].seed, before |-> call[th].before,
                                   main |-> call[th].main, bonus |-> call[th].bonus])
    /\ call' = [call EXCEPT ![th] = IdleCall]
    /\ UNCHANGED <<rng, Others>>

(***************************************************************************)
(* Calls of the other functions                                            *)
(***************************************************************************)
Lengths == 0..MaxParam
Masses == 0..MaxParam
Durations == (-1)..MaxTmax
Steps == (-1)..MaxDt
InitialStates == {DefaultY0, <<AngleTenth, 0, -5 * AngleTenth, 2000>>}
ClockMinutes == {0, DrawMinute - 1, DrawMinute, DrawMinute + 1, MinutesPerDay - 1}

\* simulate_double_pendulum(L1, L2, m1, m2, tmax, dt, y0)
Simulate(L1, L2, m1, m2, tmax, dt, y0) ==
    /\ simOut.fn = "none"
    /\ \E r \in simulate_double_pendulum(L1, L2, m1, m2, tmax, dt, y0) :
          simOut' = [fn |-> "simulate", L1 |-> L1, L2 |-> L2, m1 |-> m1, m2 |-> m2,
                     tmax |-> tmax, dt |-> dt, y0 |-> y0, out |-> r]
    /\ UNCHANGED <<rng, call, drawLog, hashSalt, seedLog, nwOut, mainPc, base,
                   token, iter>>

\* get_chaotic_value_from_pendulum(tmax=tmax, dt=dt, y0=y0), the other
\* parameters at their defaults; traj is the trajectory the call consumed.
ChaoticValue(tmax, dt, y0) ==
    /\ simOut.fn = "none"
    /\ \E r \in simulate_double_pendulum(DefaultLength, DefaultLength, DefaultMass,
                                         DefaultMass, tmax, dt, y0) :
          simOut' = [fn |-> "chaotic", L1 |-> DefaultLength, L2 |-> DefaultLength,
                     m1 |-> DefaultMass, m2 |-> DefaultMass,
                     tmax |-> tmax, dt |-> dt, y0 |-> y0,
                     traj |-> r, out |-> ChaoticOutcome(r)]
    /\ UNCHANGED <<rng, call, drawLog, hashSalt, seedLog, nwOut, mainPc, base,
                   token, iter>>

\* get_chaotic_value_from_pendulum()
ChaoticValueDefault == ChaoticValue(DefaultTmax, DefaultDt, DefaultY0)

\* create_combined_seed(t, w)
CreateCombinedSeed(t, w) ==
    /\ Len(seedLog) < MaxSeedCalls
    /\ seedLog' = Append(seedLog, SeedEntry(t, w))
    /\ UNCHANGED <<rng, call, drawLog, hashSalt, simOut, nwOut, mainPc, base,
                   token, iter>>

\* generate_eurodreams_numbers(s), from entry to return, s a seed that
\* create_combined_seed returned.
Draw(s) ==
    /\ Len(drawLog) < MaxDraws
    /\ rng' = generate_eurodreams_numbers(s).g
    /\ drawLog' = Append(drawLog, DrawEntry(s))
    /\ UNCHANGED <<call, hashSalt, seedLog, simOut, nwOut, mainPc, base, token, iter>>

\* next_weekday(target) called at weekday wd, minute m of the day.
NextWeekday(target, wd, m) ==
    /\ nwOut.status = "none"
    /\ nwOut' = [status |-> "ok", target |-> target, wd |-> wd, minute |-> m,
                 now |-> wd * MinutesPerDay + m, out |-> next_weekday(target, wd, m)]
    /\ UNCHANGED <<rng, call, drawLog, hashSalt, seedLog, simOut, mainPc, base,
                   token, iter>>

(***************************************************************************)
(* The main program from the capture of current_datetime on (lines 163 to  *)
(* 207): 47 trial draws, then the official draw.                           *)
(***************************************************************************)
NumTrials == 47

\* int(current_datetime.strftime("%d%H%M%S%f")) + i
TrialTimeSeed(b, i) == b + i

\* int(current_datetime.strftime("%d%H%M%S%f")) + 47
OfficialTimeSeedLastTrial(b) == b + 46

OfficialTimeSeed(b) == b + 47

\* lines 143-163: the weather token is built and the timestamp captured.
MainCapture(b, w) ==
    /\ mainPc = "start"
    /\ base' = b
    /\ token' = w
    /\ iter' = 0
    /\ mainPc' = "trials"
    /\ UNCHANGED <<rng, call, drawLog, hashSalt, seedLog, simOut, nwOut>>

\* One draw of the run with time integer t: lines 191-194, and 206-207.
RunDraw(t) ==
    LET e == SeedEntry(t, token)
    IN  /\ seedLog' = Append(seedLog, e)
        /\ rng' = generate_eurodreams_numbers(e.seed).g
        /\ drawLog' = Append(drawLog, DrawEntry(e.seed))
        /\ UNCHANGED <<call, hashSalt, simOut, nwOut, base, token>>

\* lines 186-197: one pass of the trial loop.
TrialDraw ==
    /\ mainPc = "trials"
    /\ iter < NumTrials
    /\ RunDraw(TrialTimeSeed(base, iter))
    /\ iter' = iter + 1
    /\ UNCHANGED mainPc

\* lines 205-207: the official draw, after the loop.
OfficialDraw ==
    /\ mainPc = "trials"
    /\ iter = NumTrials
    /\ RunDraw(OfficialTimeSeed(base))
    /\ mainPc' = "done"
    /\ UNCHANGED iter

(***************************************************************************)
(* Initial state: the interpreter has imported the module; `random` is     *)
(* seeded from the operating system, hash() is salted per process.         *)
(***************************************************************************)
Init ==
    /\ rng \in {[st |-> s, consumed |-> 0] : s \in {0, 1}}
    /\ call = [th \in Threads |-> IdleCall]
    /\ drawLog = <<>>
    /\ hashSalt \in 0..MaxSalt
    /\ seedLog = <<>>
    /\ simOut = [fn |-> "none"]
    /\ nwOut = [status |-> "none"]
    /\ mainPc = "start"
    /\ base = 0
    /\ token = 1
    /\ iter = 0

\* Sequential calls of the sampler with arbitrary seeds.
Next ==
    \/ \E s \in Seeds : StartCall(s)
    \/ \E th \in Threads : SeedStep(th)
    \/ \E th \in Threads : SampleStep(th)
    \/ \E th \in Threads : BonusStep(th)
    \/ \E th \in Threads : Return(th)

Spec == Init /\ [][Next]_vars

\* Concurrent calls of the sampler: the statements of different threads interleave.
NextConc ==
    \/ \E th \in Threads, s \in Seeds : StartCallConc(th, s)
    \/ \E th \in Threads : SeedStep(th)
    \/ \E th \in Threads : SampleStep(th)
    \/ \E th \in Threads : BonusStep(th)
    \/ \E th \in Threads : Return(th)

SpecConc == Init /\ [][NextConc]_vars

\* The seed combiner, with sampler calls on the seeds it returned in between.
NextSeed ==
    \/ \E t \in 0..MaxTime, w \in Tokens : CreateCombinedSeed(t, w)
    \/ \E k \in 1..Len(seedLog) : Draw(seedLog[k].seed)

SpecSeed == Init /\ [][NextSeed]_vars

\* The integrator and the chaos extractor: one call, of any of the inputs.
NextSim ==
    \/ \E L1 \in Lengths, m1 \in Masses, tmax \in Durations, dt \in Steps,
          y0 \in InitialStates :
          Simulate(L1, DefaultLength, m1, DefaultMass, tmax, dt, y0)
    \/ \E tmax \in Durations, dt \in Steps, y0 \in InitialStates :
          ChaoticValue(tmax, dt, y0)
    \/ ChaoticValueDefault

SpecSim == Init /\ [][NextSim]_vars

\* The next draw date: one call, at any moment of the week.
NextClock ==
    \E target \in 0..6, wd \in 0..6, m \in ClockMinutes : NextWeekday(target, wd, m)

SpecClock == Init /\ [][NextClock]_vars

\* One run of the main program.
NextMain ==
    \/ \E b \in 0..MaxBase, w \in Tokens : MainCapture(b, w)
    \/ TrialDraw
    \/ OfficialDraw

SpecMain == Init /\ [][NextMain]_vars

(***************************************************************************)
(* Properties of the sampler                                               *)
(***************************************************************************)
\* A DrawResult: 6 pairwise distinct integers of 1..40 in strictly ascending
\* order, and a list of exactly one bonus integer of 1..5.
IsDrawResult(main, bonus) ==
    /\ Len(main) = 6
    /\ \A k \in 1..Len(main) : main[k] \in 1..40
    /\ \A j, k \in 1..Len(main) : j < k => main[j] < main[k]
    /\ Len(bonus) = 1
    /\ bonus[1] \in 1..5

\* C1: every call generate_eurodreams_numbers(seed), for every integer seed,
\* returns 6 pairwise distinct main numbers of 1..40 in strictly ascending
\* order together with exactly one bonus number of 1..5.
C1_DrawResultShape ==
    /\ \A k \in 1..Len(drawLog) : IsDrawResult(drawLog[k].main, drawLog[k].bonus)
    /\ \A th \in Threads :
          call[th].pc = "return" => IsDrawResult(call[th].main, call[th].bonus)

\* Calls with a negative, a zero and a positive seed have returned.
C1_Witness ==
    /\ \E k \in 1..Len(drawLog) : drawLog[k].seed < 0
    /\ \E k \in 1..Len(drawLog) : drawLog[k].seed = 0
    /\ \E k \in 1..Len(drawLog) : drawLog[k].seed > 0

\* C2: two sequential calls with the same seed return the same DrawResult,
\* whatever state earlier calls left the shared generator in.
C2_SamplerDeterminism ==
    \A j, k \in 1..Len(drawLog) :
        drawLog[j].seed = drawLog[k].seed
            => /\ drawLog[j].main = drawLog[k].main
               /\ drawLog[j].bonus = drawLog[k].bonus

\* Two calls with the same seed were entered with the generator in different
\* states, a call with another seed in between.
C2_Witness ==
    \E j, k \in 1..Len(drawLog) :
        /\ j + 1 < k
        /\ drawLog[j].seed = drawLog[k].seed
        /\ drawLog[j + 1].seed # drawLog[j].seed
        /\ drawLog[j].before # drawLog[k].before

\* The state of a generator seeded with a after k draws.
RECURSIVE StateAfter(_, _)
StateAfter(a, k) == IF k = 0 THEN SeedState(a).st ELSE RngNext(StateAfter(a, k - 1))

\* C8: within one call the generator is seeded first, the 6 main numbers are
\* drawn next (draws 1..6 of the freshly seeded generator) and the bonus last
\* (draw 7); the bonus never draws before the main numbers, and sorting the
\* main numbers draws nothing.
C8_DrawOrder ==
    \A th \in Threads :
        /\ call[th].pc = "sample"
              => /\ rng = SeedState(call[th].seed)
                 /\ call[th].main = <<>> /\ call[th].bonus = <<>>
        /\ call[th].pc = "bonus"
              => /\ rng.consumed = 6
                 /\ rng.st = StateAfter(call[th].seed, 6)
                 /\ Len(call[th].main) = 6 /\ call[th].bonus = <<>>
        /\ call[th].pc = "return"
              => /\ rng.consumed = 7
                 /\ Len(call[th].main) = 6
                 /\ call[th].bonus = <<1 + (RngBits(StateAfter(call[th].seed, 7)) % 5)>>

\* A call has drawn its bonus after its main numbers and is about to return.
C8_Witness ==
    \E th \in Threads :
        call[th].pc = "return" /\ rng.consumed = 7 /\ Len(call[th].main) = 6

\* C6: a call that runs concurrently with other calls returns the DrawResult
\* that a call with its own seed returns when run alone.
C6_ConcurrentCallsIndependent ==
    \A th \in Threads :
        call[th].pc = "return"
            => /\ call[th].main = generate_eurodreams_numbers(call[th].seed).main
               /\ call[th].bonus = generate_eurodreams_numbers(call[th].seed).bonus

(***************************************************************************)
(* Properties of the seed combiner                                         *)
(***************************************************************************)
\* C3: create_combined_seed(t, w) is exactly hash(w) + t + floor(|v| * 1e6),
\* v the chaotic value of the default simulation: what remains of the seed
\* once hash(w) and t are taken off is the integer q with
\* q <= |v| * 1e6 < q + 1, and with w fixed a time integer larger by k gives
\* a seed larger by exactly k.
C3_SeedIsPlainSum ==
    /\ \A k \in 1..Len(seedLog) :
          LET e == seedLog[k]
              q == e.seed - Hash(e.w) - e.t
          IN  /\ q >= 0
              /\ q * 10 <= Abs(DefaultChaoticValue)
              /\ Abs(DefaultChaoticValue) < (q + 1) * 10
    /\ \A j, k \in 1..Len(seedLog) :
          seedLog[j].w = seedLog[k].w
              => seedLog[k].seed - seedLog[j].seed = seedLog[k].t - seedLog[j].t

\* Two seeds were combined for one token and time integers 2 apart, the token
\* hashing to a negative number.
C3_Witness ==
    \E j, k \in 1..Len(seedLog) :
        /\ seedLog[j].w = seedLog[k].w
        /\ seedLog[k].t = seedLog[j].t + 2
        /\ Hash(seedLog[j].w) < 0

\* C7: within one process two calls create_combined_seed(t, w) with the same
\* (t, w) return the same integer, whatever sampler calls reseeded the shared
\* generator in between.
C7_CombinerDeterminism ==
    \A j, k \in 1..Len(seedLog) :
        (seedLog[j].t = seedLog[k].t /\ seedLog[j].w = seedLog[k].w)
            => seedLog[j].seed = seedLog[k].seed

\* The same (t, w) was combined twice, a sampler call in between having
\* changed the state of the shared generator.
C7_Witness ==
    \E j, k \in 1..Len(seedLog) :
        /\ j < k
        /\ seedLog[j].t = seedLog[k].t /\ seedLog[j].w = seedLog[k].w
        /\ seedLog[j].rngAt # seedLog[k].rngAt

(***************************************************************************)
(* Properties of the main program                                          *)
(***************************************************************************)
\* C5: the draws of one run receive the time integers base + 0, base + 1, ...
\* in this order, base + 47 for the official draw, base being captured once:
\* they strictly increase from one draw to the next, and the combined seeds of
\* the run are pairwise distinct; the run makes 48 draws.
C5_DistinctTimeIntegers ==
    /\ Len(seedLog) <= 48
    /\ Len(drawLog) = Len(seedLog)
    /\ mainPc = "done" => Len(seedLog) = 48
    /\ \A k \in 1..Len(seedLog) :
          /\ seedLog[k].t = base + (k - 1)
          /\ seedLog[k].w = token
          /\ drawLog[k].seed = seedLog[k].seed
    /\ \A j, k \in 1..Len(seedLog) :
          j < k => /\ seedLog[j].t < seedLog[k].t
                   /\ seedLog[j].seed # seedLog[k].seed

\* The run has made its 47 trial draws and its official draw.
C5_Witness == mainPc = "done" /\ Len(seedLog) = 48 /\ iter = 47

(***************************************************************************)
(* Properties of the integrator and the chaos extractor                    *)
(***************************************************************************)
\* The trajectory of the last call.
LastTrajectory == IF simOut.fn = "chaotic" THEN simOut.traj ELSE simOut.out

\* The number of times 0, dt, 2dt, ... strictly below tmax, for tmax, dt > 0.
TimesBelow(tmax, dt) == -((-tmax) \div dt)

\* C9: for positive lengths and masses, tmax > 0 and 0 < dt < tmax the
\* trajectory of simulate_double_pendulum has one sample per time
\* 0, dt, 2dt, ... strictly below tmax and none at or after tmax, its first
\* sample is the initial state's angles, and the chaotic value is the theta2
\* sample at the last of these times; with the defaults there are 1000 samples
\* and the value is the one at index 999 counted from 0.
C9_TrajectorySamples ==
    (/\ simOut.fn # "none"
     /\ simOut.L1 > 0 /\ simOut.L2 > 0 /\ simOut.m1 > 0 /\ simOut.m2 > 0
     /\ simOut.tmax > 0 /\ 0 < simOut.dt /\ simOut.dt < simOut.tmax)
        => LET r == LastTrajectory
               n == TimesBelow(simOut.tmax, simOut.dt)
               end == DoubleOfCenti(simOut.tmax)
           IN  /\ r.status = "ok"
               /\ Len(r.t) = n /\ Len(r.theta1) = n /\ Len(r.theta2) = n
               /\ \A k \in 1..Len(r.t) : TimeLess(r.t[k], end)
               /\ r.theta1[1] = simOut.y0[1]
               /\ r.theta2[1] = simOut.y0[3]
               /\ simOut.fn = "chaotic"
                     => /\ simOut.out.status = "ok"
                        /\ simOut.out.value = r.theta2[n]
               /\ (simOut.tmax = 1000 /\ simOut.dt = 1) => n = 1000

\* C4: simulate_double_pendulum called with a non-positive length, mass,
\* duration or step fails with InvalidParameter and returns no trajectory.
C4_InvalidParameterRejected ==
    (/\ simOut.fn = "simulate"
     /\ \/ simOut.L1 <= 0 \/ simOut.L2 <= 0
        \/ simOut.m1 <= 0 \/ simOut.m2 <= 0
        \/ simOut.tmax <= 0 \/ simOut.dt <= 0)
        => simOut.out.status = "InvalidParameter"

(***************************************************************************)
(* Properties of the next draw date                                        *)
(***************************************************************************)
\* The moment of the draw d days after weekday wd.
DrawMoment(wd, d) == (wd + d) * MinutesPerDay + DrawMinute

\* C10: next_weekday(target) returns the earliest moment later than now that
\* falls on the target weekday at 20:30; the date is on the target weekday and
\* between 1 and 7 days after today.
C10_EarliestDrawAfterNow ==
    nwOut.status = "ok"
        => /\ nwOut.out.weekday = nwOut.target
           /\ nwOut.out.days \in 1..7
           /\ nwOut.out.moment > nwOut.now
           /\ \A d \in 0..7 :
                 ((nwOut.wd + d) % 7 = nwOut.target
                    /\ DrawMoment(nwOut.wd, d) > nwOut.now)
                     => nwOut.out.moment <= DrawMoment(nwOut.wd, d)

====
